---- MODULE Spec2Model ----
(***************************************************************************)
(* A model of MockClient's streaming chat / persistence coordinator:      *)
(*   - ChatInterface.handleSend  (src/src/components/chat/ChatInterface.tsx)*)
(*   - SessionWriter             (src/src/lib/chatService.ts)             *)
(*   - the Appwrite gateway: createSession, touchSession, appendMessage    *)
(*                               (src/src/lib/ollama.ts, lines 162-453)    *)
(*   - sendStreamingChatMessage  (src/src/lib/ollama.ts, lines 50-116)     *)
(* The JavaScript event loop is modelled by one action per macrotask: a    *)
(* handler runs, together with every promise continuation it makes ready,  *)
(* up to the next await of a network round trip.                           *)
(***************************************************************************)
EXTENDS Integers, Sequences, FiniteSets, TLC

\* ---------------------------------------------------------------- bounds
MaxTurns == 2
MaxCountedTurns == 1
MaxChunks == 2
MaxClock == 1
MaxStarts == 3
MaxFaults == 2
MaxLines == 3
MaxRead == 4
MaxRejects == 1
MaxStored == 2
MaxRuns == 3
MaxHistory == 501
MaxPurged == 201
MaxSwitches == 2

\* ------------------------------------------------------------- constants
NoSession == 0
NoFile == 0
OpeningId == 0
ResumedId == 1
OtherId == 2
PageSize == 50
MAX_MESSAGES == 500
ListLimit == 100

Texts == {"", "hi"}
InputTexts == {"", " ", "hi"}
CallIds == {"brief", "user", "asst"}
Readers == {1, 2}

\* the text fragments a reply is streamed in
Fragments == <<"c1", "c2", "c3", "c4">>

Diagnostic == <<"diag">>
BriefText == <<"brief">>
ScreenshotText == "(Screenshot attached)"

VARIABLES
    \* ChatInterface state
    messages,     \* the transcript (useState messages)
    isLoading,    \* useState isLoading
    pc,           \* position of the running handleSend
    turn,         \* number of accepted submits
    cur,          \* locals of the running handleSend
    hasBrief,     \* the initialMessage prop is a non-empty string
    resumed,      \* the resumeSession prop is set
    turnLimit,    \* how many submits the behaviour explores
    input,        \* useState input: the text typed
    selectedImage,\* useState selectedImage: an image is attached
    \* SessionWriter state
    writer,       \* writerRef.current
    calls,        \* the saveInitialBrief / save calls of the writer
    \* remote store
    sessions,     \* session rows: id -> messageCount
    rows,         \* message rows, in creation order
    blobs,        \* file ids in the bucket
    touches,      \* touchSession requests in flight
    createPending,\* createSession requests in flight
    now,          \* the client clock (new Date())
    \* history
    log,
    \* sendStreamingChatMessage
    lines,        \* the lines the endpoint sends
    terminated,   \* the last line ends with a newline
    rd,           \* per reader: position in the byte stream, buffer, callback trace, state
    \* deleteSession
    del,          \* the running deleteSession call: phase, targets, outcomes
    \* the setup script
    schema,       \* what the Appwrite project holds: items and permissions
    setup,        \* the run of the setup script: step, phase, status
    \* the resume view
    loadingHistory, \* useState loadingHistory
    resumeSession,  \* the $id of the resumeSession prop, NoSession without one
    loads,          \* the loadSessionMessages calls of the resume effect
    writerRef       \* writerRef.current, once an effect has replaced the writer
                    \* that handleSend last held

viewVars == <<messages, isLoading, pc, turn, cur, hasBrief, resumed, turnLimit, input, selectedImage>>
writerVars == <<writer, calls>>
storeVars == <<sessions, rows, blobs, touches, createPending, now>>
streamVars == <<lines, terminated, rd>>
setupVars == <<schema, setup>>
navVars == <<loadingHistory, resumeSession, loads, writerRef>>
sideVars == <<lines, terminated, rd, del, schema, setup,
              loadingHistory, resumeSession, loads, writerRef>>
vars == <<messages, isLoading, pc, turn, cur, hasBrief, resumed, turnLimit, input, selectedImage, writer, calls,
          sessions, rows, blobs, touches, createPending, now, log,
          lines, terminated, rd, del, schema, setup,
          loadingHistory, resumeSession, loads, writerRef>>

\* ------------------------------------------------------------ transcript
UserEntryId(t) == 2 * t - 1
AssistantEntryId(t) == 2 * t

Entry(id, role, content, image) ==
    [id |-> id, role |-> role, content |-> content, image |-> image]

OpeningTranscript(brief) ==
    << Entry(OpeningId, "assistant", IF brief THEN BriefText ELSE <<>>, "none") >>

UserContent(text) == IF text # "" THEN <<text>> ELSE <<ScreenshotText>>

OnChunkKeepsLast(content, chunk) == <<chunk>>

\* assistantContent += chunk
OnChunkContent(content, chunk) == Append(content, chunk)

AppendChunk(msgs, aid, chunk) ==
    [i \in 1..Len(msgs) |->
        IF msgs[i].id = aid
            THEN [msgs[i] EXCEPT !.content = Append(@, chunk)]
            ELSE msgs[i]]

StreamErrorKeepsMessages(msgs, aid) == msgs

StreamErrorAppendsDiagnostic(msgs, aid) ==
    [i \in 1..Len(msgs) |->
        IF msgs[i].id = aid
            THEN [msgs[i] EXCEPT !.content = @ \o Diagnostic]
            ELSE msgs[i]]

StreamErrorMessages(msgs, aid) ==
    [i \in 1..Len(msgs) |->
        IF msgs[i].id = aid
            THEN [msgs[i] EXCEPT !.content = Diagnostic]
            ELSE msgs[i]]

PersistErrorWipesMessages(msgs, aid) == StreamErrorMessages(msgs, aid)

PersistErrorMessages(msgs, aid) == msgs

ResolveImage(msgs, uid, url) ==
    [i \in 1..Len(msgs) |->
        IF msgs[i].id = uid
            THEN [msgs[i] EXCEPT !.image = url]
            ELSE msgs[i]]

LoadingStuckOnPersistError(outcome) == outcome = "persistFailed"

LoadingAfterTurn(outcome) == FALSE

\* --------------------------------------------------------- SessionWriter
NewWriter ==
    [exists |-> TRUE, sessionId |-> NoSession, sessionCreating |-> "none",
     messageCount |-> 0]

NoWriter ==
    [exists |-> FALSE, sessionId |-> NoSession, sessionCreating |-> "none",
     messageCount |-> 0]

\* writerRef.current is the writer handleSend last held
NotReplaced == [replaced |-> FALSE, w |-> NoWriter]

IdleCall ==
    [stage |-> "idle", img |-> FALSE, role |-> "user", content |-> <<>>,
     sid |-> NoSession, fileId |-> NoFile, ts |-> 0, turn |-> 0,
     failedAt |-> "none", url |-> "none", waited |-> FALSE]

SetExistingSessionForgetsId(w, sid, count) == [w EXCEPT !.messageCount = count]

SetExistingSession(w, sid, count) ==
    [w EXCEPT !.sessionId = sid, !.messageCount = count]

EnsureSessionUnlocked(w) ==
    IF w.sessionId # NoSession
        THEN [w |-> w, res |-> "ready", issued |-> FALSE]
        ELSE IF w.sessionCreating \in {"none", "pending"}
            THEN [w |-> [w EXCEPT !.sessionCreating = "pending"],
                  res |-> "wait", issued |-> TRUE]
            ELSE [w |-> w, res |-> "rejected", issued |-> FALSE]

EnsureSessionRetries(w) ==
    IF w.sessionId # NoSession
        THEN [w |-> w, res |-> "ready", issued |-> FALSE]
        ELSE IF w.sessionCreating \in {"none", "rejected"}
            THEN [w |-> [w EXCEPT !.sessionCreating = "pending"],
                  res |-> "wait", issued |-> TRUE]
            ELSE [w |-> w, res |-> "wait", issued |-> FALSE]

EnsureSession(w) ==
    IF w.sessionId # NoSession
        THEN [w |-> w, res |-> "ready", issued |-> FALSE]
        ELSE IF w.sessionCreating = "none"
            THEN [w |-> [w EXCEPT !.sessionCreating = "pending"],
                  res |-> "wait", issued |-> TRUE]
            ELSE IF w.sessionCreating = "pending"
                THEN [w |-> w, res |-> "wait", issued |-> FALSE]
                ELSE [w |-> w, res |-> "rejected", issued |-> FALSE]

\* appendMessage up to its first await: the upload when there is an image,
\* else createDocument, whose timestamp is read as the request is built
BeginAppend(c, sid, clock) ==
    IF c.img
        THEN [c EXCEPT !.stage = "uploading", !.sid = sid]
        ELSE [c EXCEPT !.stage = "creating", !.sid = sid, !.ts = clock]

UploadFailedDangling(c, clock) ==
    [c EXCEPT !.stage = "creating", !.fileId = 99, !.ts = clock]

UploadFailed(c, clock) ==
    [c EXCEPT !.stage = "failed", !.failedAt = "upload"]

UploadSucceededNoReference(c, fid, clock) ==
    [c EXCEPT !.stage = "creating", !.ts = clock]

UploadSucceeded(c, fid, clock) ==
    [c EXCEPT !.stage = "creating", !.fileId = fid, !.ts = clock]

InFlight(c) == c.stage \in {"uploading", "creating"}
Settled(c) == c.stage \in {"done", "failed"}
Running(c) == c.stage \notin {"idle", "done", "failed"}

UserSaveNotAwaited(c) == c.stage # "idle"

\* `await writer.save('user', ...)`: handleSend goes on once the call settled
UserSaveAwaited(c) == Settled(c)

BriefCall ==
    [IdleCall EXCEPT !.role = "assistant", !.content = BriefText]

UserCall ==
    [IdleCall EXCEPT !.role = "user", !.content = cur.content,
                     !.img = cur.img, !.turn = turn]

AssistantCall ==
    [IdleCall EXCEPT !.role = "assistant", !.content = cur.assistantContent,
                     !.turn = turn]

\* saveInitialBrief / save up to the first await that leaves the event loop
StartedCall(w, c, clock) ==
    LET e == EnsureSession(w) IN
    [w |-> e.w,
     issued |-> e.issued,
     c |-> IF e.res = "ready" THEN BeginAppend(c, e.w.sessionId, clock)
           ELSE IF e.res = "wait"
               THEN [c EXCEPT !.stage = "waitSession", !.waited = TRUE]
           ELSE [c EXCEPT !.stage = "failed", !.failedAt = "session"]]

Issue(n, issued) == IF issued THEN n + 1 ELSE n

\* the model injects at most MaxFaults failures of the endpoint, the file
\* reader and the store in one behaviour
MayFail == log.faults < MaxFaults

\* new Date(): the clock may have advanced since it was last read
Clocks == {c \in now..(now + 1) : c <= MaxClock}
LatestRead(cs) ==
    LET read == {now} \cup {cs[k].ts : k \in CallIds}
    IN  CHOOSE m \in read : \A x \in read : x <= m
Fault(lg) == [lg EXCEPT !.faults = @ + 1]

\* ------------------------------------------------------- handleSend tail
\* the `finally` of handleSend, with the transcript the turn ends on
EndTurn(outcome, msgs, lg) ==
    /\ messages' = msgs
    /\ isLoading' = LoadingAfterTurn(outcome)
    /\ pc' = "idle"
    /\ log' = [lg EXCEPT !.outcome = outcome, !.rowsAtEnd = Len(rows')]
    /\ UNCHANGED <<turn, cur, hasBrief, resumed, turnLimit, input, selectedImage>>

\* the outer catch: the placeholder is replaced by the diagnostic
StreamFailed(outcome) ==
    /\ MayFail
    /\ UNCHANGED <<writerVars, storeVars, sideVars>>
    /\ EndTurn(outcome, StreamErrorMessages(messages, AssistantEntryId(turn)),
               Fault(log))

\* What handleSend does once the store calls of this step have been applied:
\* w1, c1, p1, lg1 are writer, calls, createPending and log after them.
React(at, clock, w1, c1, p1, lg1) ==
    IF at = "saveUser" /\ UserSaveAwaited(c1["user"])
    THEN IF c1["user"].stage = "failed"
         THEN /\ EndTurn("persistFailed",
                         PersistErrorMessages(messages, AssistantEntryId(turn)), lg1)
              /\ writer' = w1 /\ calls' = c1 /\ createPending' = p1
         ELSE LET sc == StartedCall(w1, AssistantCall, clock)
                  c2 == [c1 EXCEPT !["asst"] = sc.c]
                  p2 == Issue(p1, sc.issued)
                  lg2 == [lg1 EXCEPT !.createCalls = Issue(@, sc.issued)]
              IN  /\ writer' = sc.w /\ calls' = c2 /\ createPending' = p2
                  /\ IF sc.c.stage = "failed"
                     THEN EndTurn("persistFailed",
                                  PersistErrorMessages(messages, AssistantEntryId(turn)), lg2)
                     ELSE /\ pc' = "saveAsst"
                          /\ log' = lg2
                          /\ UNCHANGED <<messages, isLoading, turn, cur, hasBrief, resumed, turnLimit, input, selectedImage>>
    ELSE IF at = "saveAsst" /\ Settled(c1["asst"])
    THEN /\ writer' = w1 /\ calls' = c1 /\ createPending' = p1
         /\ IF c1["asst"].stage = "failed"
            THEN EndTurn("persistFailed",
                         PersistErrorMessages(messages, AssistantEntryId(turn)), lg1)
            ELSE EndTurn("persisted",
                         IF c1["user"].fileId # NoFile
                             THEN ResolveImage(messages, UserEntryId(turn), c1["user"].url)
                             ELSE messages,
                         lg1)
    ELSE /\ writer' = w1 /\ calls' = c1 /\ createPending' = p1 /\ log' = lg1
         /\ pc' = at
         /\ UNCHANGED <<messages, isLoading, turn, cur, hasBrief, resumed, turnLimit, input, selectedImage>>

\* ------------------------------------------------------------ handleSend
\* no handleSend has run
NoLocals ==
    [content |-> <<>>, img |-> FALSE, assistantContent |-> <<>>,
     ollamaMessages |-> <<>>]

SystemPrompt == <<"system">>

OllamaMessage(role, content, images) ==
    [role |-> role, content |-> content, images |-> images]

HistoryKeepsOpening(m) == TRUE

\* messages.filter((m) => m.id !== 'opening' || !!resumeSession)
InHistory(m) == m.id # OpeningId \/ resumed

RECURSIVE History(_)
History(msgs) ==
    IF msgs = <<>> THEN <<>>
    ELSE IF InHistory(Head(msgs))
         THEN <<OllamaMessage(Head(msgs).role, Head(msgs).content, 0)>>
              \o History(Tail(msgs))
         ELSE History(Tail(msgs))

\* ollamaMessages: the system prompt, the history of the transcript as
\* handleSend sees it, and the new user message with its encoded image
OllamaMessages(msgs, content, img) ==
    <<OllamaMessage("system", SystemPrompt, 0)>>
        \o History(msgs)
        \o <<OllamaMessage("user", content, IF img THEN 1 ELSE 0)>>

\* !input.trim(): of the texts of the model, the empty and the blank one
Blank(text) == text \in {"", " "}

EarlyReturnNever(text, img) == FALSE

\* if (!input.trim() && !selectedImage) return;
EarlyReturn(text, img) == Blank(text) /\ ~img

EverySubmitFirst(w) == TRUE

\* if (!writerRef.current): no writer has been made in this view
FirstSubmit(w) == ~w.exists

SendAlwaysEnabled == FALSE

\* disabled={isLoading || loadingHistory} on the Textarea and the Send button
Disabled == isLoading \/ loadingHistory

Submit(text, img, clock) ==
    /\ ~Disabled
    /\ turn < turnLimit
    /\ ~EarlyReturn(text, img)
    /\ LET t == turn + 1
           fresh == FirstSubmit(writer)
           w0 == IF fresh THEN NewWriter ELSE writer
           sc == StartedCall(w0, BriefCall, clock)
           brief == fresh /\ hasBrief
       IN  /\ turn' = t
           /\ messages' = messages \o
                << Entry(UserEntryId(t), "user", UserContent(text),
                         IF img THEN "local" ELSE "none"),
                   Entry(AssistantEntryId(t), "assistant", <<>>, "none") >>
           /\ isLoading' = TRUE
           /\ cur' = [content |-> UserContent(text), img |-> img,
                      assistantContent |-> <<>>,
                      ollamaMessages |-> OllamaMessages(messages, UserContent(text), img)]
           /\ writer' = IF brief THEN sc.w ELSE w0
           /\ calls' = IF brief THEN [calls EXCEPT !["brief"] = sc.c] ELSE calls
           /\ createPending' = IF brief THEN Issue(createPending, sc.issued)
                                        ELSE createPending
           /\ log' = [log EXCEPT
                        !.createCalls = IF brief THEN Issue(@, sc.issued) ELSE @,
                        !.outcome = "none",
                        !.streamed = <<>>,
                        !.rowsAtSubmit = Len(rows),
                        !.submittedIn = resumeSession,
                        !.rowsAtEnd = Len(rows),
                        !.atStreamEnd = <<>>]
           /\ pc' = IF img THEN "encoding" ELSE "fetching"
    /\ input' = "" /\ selectedImage' = FALSE
    /\ UNCHANGED <<hasBrief, resumed, turnLimit, sessions, rows, blobs, touches, sideVars>>
    /\ now' = LatestRead(calls')

EncodeOk ==
    /\ pc = "encoding"
    /\ pc' = "fetching"
    /\ UNCHANGED <<messages, isLoading, turn, cur, hasBrief, resumed, turnLimit, input, selectedImage, writerVars,
                   storeVars, log, sideVars>>

EncodeFail == pc = "encoding" /\ StreamFailed("encodeErr")

FetchOk ==
    /\ pc = "fetching"
    /\ pc' = "streaming"
    /\ UNCHANGED <<messages, isLoading, turn, cur, hasBrief, resumed, turnLimit, input, selectedImage, writerVars,
                   storeVars, log, sideVars>>

FetchNotOk == pc = "fetching" /\ StreamFailed("notOk")

FetchReject == pc = "fetching" /\ StreamFailed("netErr")

\* the onChunk callback, invoked with the next fragment of the reply
Chunk ==
    /\ pc = "streaming"
    /\ Len(log.streamed) < MaxChunks
    /\ LET ch == Fragments[Len(log.streamed) + 1] IN
        /\ cur' = [cur EXCEPT !.assistantContent = OnChunkContent(@, ch)]
        /\ messages' = AppendChunk(messages, AssistantEntryId(turn), ch)
        /\ log' = [log EXCEPT !.streamed = Append(@, ch)]
    /\ UNCHANGED <<isLoading, pc, turn, hasBrief, resumed, turnLimit, input, selectedImage, writerVars, storeVars, sideVars>>

StreamFail == pc = "streaming" /\ StreamFailed("midFail")

\* const writer = writerRef.current!
WriterRefCurrent == IF writerRef.replaced THEN writerRef.w ELSE writer

StreamDone(clock) ==
    /\ pc = "streaming"
    /\ UNCHANGED <<sessions, rows, blobs, touches, lines, terminated, rd, del,
                   schema, setup, loadingHistory, resumeSession, loads>>
    /\ writerRef' = NotReplaced
    /\ LET sc == StartedCall(WriterRefCurrent, UserCall, clock)
           c1 == [calls EXCEPT !["user"] = sc.c, !["asst"] = IdleCall]
           lg1 == [log EXCEPT !.createCalls = Issue(@, sc.issued),
                              !.outcome = "ok",
                              !.atStreamEnd = messages]
       IN  React("saveUser", clock, sc.w, c1, Issue(createPending, sc.issued), lg1)
    /\ now' = LatestRead(calls')

\* ---------------------------------------------------------- remote store

NewSessionId == Cardinality(DOMAIN sessions) + 1
NewFileId == Cardinality(log.uploaded) + 1

Row(c) ==
    [sid |-> c.sid, role |-> c.role, content |-> c.content,
     fileId |-> c.fileId, ts |-> c.ts, turn |-> c.turn]

\* createSession resolved: the row exists with messageCount 0, the writer
\* records the id, and every call awaiting ensureSession goes on to
\* appendMessage in the same macrotask
CreateSessionOk(clock) ==
    /\ createPending > 0
    /\ UNCHANGED <<rows, blobs, touches, sideVars>>
    /\ LET sid == NewSessionId
           w1 == [writer EXCEPT !.sessionId = sid, !.sessionCreating = "resolved"]
           c1 == [k \in CallIds |->
                    IF calls[k].stage = "waitSession"
                        THEN BeginAppend(calls[k], sid, clock)
                        ELSE calls[k]]
       IN  /\ sessions' = [s \in DOMAIN sessions \cup {sid} |->
                              IF s = sid THEN 0 ELSE sessions[s]]
           /\ React(pc, clock, w1, c1, createPending - 1, log)
    /\ now' = LatestRead(calls')

CreateSessionFail(clock) ==
    /\ MayFail
    /\ createPending > 0
    /\ UNCHANGED <<sessions, rows, blobs, touches, sideVars>>
    /\ LET w1 == [writer EXCEPT !.sessionCreating = "rejected"]
           c1 == [k \in CallIds |->
                    IF calls[k].stage = "waitSession"
                        THEN [calls[k] EXCEPT !.stage = "failed",
                                              !.failedAt = "session"]
                        ELSE calls[k]]
       IN  React(pc, clock, w1, c1, createPending - 1, Fault(log))
    /\ now' = LatestRead(calls')

UploadOk(k, clock) ==
    /\ calls[k].stage = "uploading"
    /\ UNCHANGED <<sessions, rows, touches, sideVars>>
    /\ LET fid == NewFileId IN
        /\ blobs' = blobs \cup {fid}
        /\ React(pc, clock, writer,
                 [calls EXCEPT ![k] = UploadSucceeded(@, fid, clock)],
                 createPending,
                 [log EXCEPT !.uploaded = @ \cup {fid}])
    /\ now' = LatestRead(calls')

UploadFail(k, clock) ==
    /\ MayFail
    /\ calls[k].stage = "uploading"
    /\ UNCHANGED <<sessions, rows, blobs, touches, sideVars>>
    /\ React(pc, clock, writer, [calls EXCEPT ![k] = UploadFailed(@, clock)], createPending,
             Fault(log))
    /\ now' = LatestRead(calls')

\* createDocument resolved: messageCount++, touchSession fired and not awaited

CreateRowOk(k, clock) ==
    /\ calls[k].stage = "creating"
    /\ UNCHANGED <<sessions, blobs, sideVars>>
    /\ LET c == calls[k]
           w1 == [writer EXCEPT !.messageCount = @ + 1]
       IN  /\ rows' = Append(rows, Row(c) @@ [call |-> k])
           /\ touches' = touches \cup
                {[sid |-> c.sid, count |-> w1.messageCount, call |-> k]}
           /\ React(pc, clock, w1,
                    [calls EXCEPT ![k].stage =
                        IF k # "brief" /\ c.fileId # NoFile
                            THEN "downloading" ELSE "done"],
                    createPending, log)
    /\ now' = LatestRead(calls')

CreateRowFail(k, clock) ==
    /\ MayFail
    /\ calls[k].stage = "creating"
    /\ UNCHANGED <<sessions, rows, blobs, touches, sideVars>>
    /\ React(pc, clock, writer,
             [calls EXCEPT ![k].stage = "failed", ![k].failedAt = "create"],
             createPending, Fault(log))
    /\ now' = LatestRead(calls')

\* downloadImageAsObjectUrl never rejects: a url, or undefined

DownloadDone(k, ok, clock) ==
    /\ ok \/ MayFail
    /\ calls[k].stage = "downloading"
    /\ UNCHANGED <<sessions, rows, blobs, touches, sideVars>>
    /\ React(pc, clock, writer,
             [calls EXCEPT ![k].stage = "done",
                           ![k].url = IF ok THEN "stored" ELSE "none"],
             createPending, IF ok THEN log ELSE Fault(log))
    /\ now' = LatestRead(calls')

TouchOk(t) ==
    /\ t \in touches
    /\ t.sid \in DOMAIN sessions
    /\ sessions' = [sessions EXCEPT ![t.sid] = t.count]
    /\ touches' = touches \ {t}
    /\ UNCHANGED <<viewVars, writerVars, rows, blobs, createPending, now, log,
                   sideVars>>

TouchRejectedFailsSave(c) == [c EXCEPT !.stage = "failed", !.failedAt = "touch"]

\* touchSession(...).catch(console.warn): the rejection is logged and the
\* call that fired the request is not affected
TouchRejected(c) == c

TouchFail(t) ==
    /\ MayFail
    /\ t \in touches
    /\ touches' = touches \ {t}
    /\ log' = [Fault(log) EXCEPT !.touchFailed = TRUE]
    /\ calls' = [calls EXCEPT ![t.call] = TouchRejected(@)]
    /\ UNCHANGED <<viewVars, writer, sessions, rows, blobs, createPending,
                   now, sideVars>>

StoreStep ==
    \/ \E clock \in Clocks : CreateSessionOk(clock)
    \/ \E clock \in Clocks : CreateSessionFail(clock)
    \/ \E k \in CallIds, clock \in Clocks : UploadOk(k, clock)
    \/ \E k \in CallIds, clock \in Clocks : UploadFail(k, clock)
    \/ \E k \in CallIds, clock \in Clocks : CreateRowOk(k, clock)
    \/ \E k \in CallIds, clock \in Clocks : CreateRowFail(k, clock)
    \/ \E k \in CallIds, ok \in BOOLEAN, clock \in Clocks : DownloadDone(k, ok, clock)

\* the store's answers to the touchSession requests, which no caller awaits
TouchStep ==
    \/ \E t \in touches : TouchOk(t)
    \/ \E t \in touches : TouchFail(t)

\* ------------------------------------------------------- specifications
InitLog ==
    [createCalls |-> 0, uploaded |-> {}, touchFailed |-> FALSE,
     streamed |-> <<>>, outcome |-> "none", rowsAtSubmit |-> 0,
     rowsAtEnd |-> 0,
     atStreamEnd |-> <<>>, starts |-> 0, faults |-> 0, rejects |-> 0,
     resumed |-> FALSE, resumeCount |-> 0, submittedIn |-> NoSession]

InitStore ==
    /\ sessions = <<>>
    /\ rows = <<>>
    /\ blobs = {}
    /\ touches = {}
    /\ createPending = 0
    /\ now = 0
    /\ log = InitLog

IdleStream ==
    /\ lines = <<>>
    /\ terminated = TRUE
    /\ rd = [r \in Readers |->
                [pos |-> 0, cut |-> FALSE, buffer |-> <<>>, out |-> <<>>, st |-> "resolved"]]

\* a conversation view with nothing submitted yet
ViewInit(limit, w) ==
    /\ turnLimit = limit
    /\ input = "" /\ selectedImage = FALSE
    /\ messages = OpeningTranscript(hasBrief)
    /\ isLoading = FALSE
    /\ pc = "idle"
    /\ turn = 0
    /\ cur = NoLocals
    /\ writer = w
    /\ calls = [k \in CallIds |-> IdleCall]

\* a row's $id
RowId(r) == <<r.call, r.turn>>

NoCursor == <<>>

\* no deleteSession call is running
NoDelete ==
    [phase |-> "idle", sid |-> NoSession, cursor |-> NoCursor, pages |-> 0,
     msgIds |-> {}, fileIds |-> {},
     pendingMsgs |-> {}, pendingFiles |-> {}, failedMsgs |-> {},
     failedFiles |-> {}, cause |-> "none"]

\* the setup script is not running and the project's schema is not looked at
NoSetup ==
    [run |-> 0, step |-> 0, phase |-> "none", status |-> "none",
     created |-> {}, patched |-> {}, afterSuccess |-> FALSE,
     startedOn |-> <<>>, storeFault |-> FALSE]

NoSetupRun == schema = <<>> /\ setup = NoSetup

\* no resume view: no resumeSession prop, no history being loaded
NoResumeView ==
    /\ loadingHistory = FALSE
    /\ resumeSession = NoSession
    /\ loads = <<>>
    /\ writerRef = NotReplaced

AppInit(limit, w) ==
    /\ ViewInit(limit, w)
    /\ InitStore
    /\ del = NoDelete
    /\ NoSetupRun
    /\ NoResumeView

\* a new conversation (App.tsx view 'new-chat'): writerRef.current is null
NewChat(limit) ==
    /\ hasBrief \in BOOLEAN /\ resumed = FALSE
    /\ AppInit(limit, NoWriter)
    /\ IdleStream

\* the answers of the file reader and of the model endpoint
ModelStep ==
    \/ EncodeOk
    \/ EncodeFail
    \/ FetchOk
    \/ FetchNotOk
    \/ FetchReject
    \/ Chunk
    \/ StreamFail
    \/ \E clock \in Clocks : StreamDone(clock)

Next ==
    \/ \E text \in Texts, img \in BOOLEAN, clock \in Clocks : Submit(text, img, clock)
    \/ ModelStep
    \/ StoreStep

Init == NewChat(MaxTurns)

Spec == Init /\ [][Next]_vars

\* every pending call of the model endpoint and of the store is answered
SpecLive == Init /\ [][Next]_vars /\ WF_vars(ModelStep) /\ WF_vars(StoreStep)

\* the same program with the store answering the touchSession requests
InitCount == NewChat(MaxCountedTurns)

NextCount == Next \/ TouchStep

SpecCount == InitCount /\ [][NextCount]_vars

\* a SessionWriter driven by arbitrary callers: saveInitialBrief and save are
\* called at any time, also while earlier calls are still pending
StartSave(k, img, clock) ==
    /\ pc = "idle" /\ turnLimit = 0
    /\ log.starts < MaxStarts
    /\ ~Running(calls[k])
    /\ k = "brief" => ~img
    /\ LET c0 == [IdleCall EXCEPT
                    !.role = IF k = "user" THEN "user" ELSE "assistant",
                    !.content = IF k = "brief" THEN BriefText ELSE <<"hi">>,
                    !.img = img,
                    !.turn = log.starts + 1]
           sc == StartedCall(writer, c0, clock)
       IN  /\ writer' = sc.w
           /\ calls' = [calls EXCEPT ![k] = sc.c]
           /\ createPending' = Issue(createPending, sc.issued)
           /\ log' = [log EXCEPT !.createCalls = Issue(@, sc.issued),
                                 !.starts = @ + 1]
    /\ now' = LatestRead(calls')
    /\ UNCHANGED <<viewVars, sessions, rows, blobs, touches, sideVars>>

InitWriter ==
    /\ hasBrief = FALSE /\ resumed = FALSE
    /\ AppInit(0, NewWriter)
    /\ IdleStream

NextWriter ==
    \/ \E k \in CallIds, img \in BOOLEAN, clock \in Clocks : StartSave(k, img, clock)
    \/ StoreStep

SpecWriter == InitWriter /\ [][NextWriter]_vars

\* -------------------------------------------------- a resumed session
\* the rows a stored session of n messages has
OldRows(n) ==
    [i \in 1..n |->
        [sid |-> ResumedId, role |-> IF i % 2 = 1 THEN "user" ELSE "assistant",
         content |-> <<"old">>, fileId |-> NoFile, ts |-> 0, turn |-> 0,
         call |-> "old"]]

\* the resume effect: writer.setExistingSession(resumeSession.$id,
\* resumeSession.messageCount) on the writer just constructed
Resume ==
    /\ pc = "idle" /\ turnLimit = 0
    /\ ~log.resumed /\ log.starts = 0
    /\ writer' = SetExistingSession(writer, ResumedId, sessions[ResumedId])
    /\ log' = [log EXCEPT !.resumed = TRUE, !.resumeCount = sessions[ResumedId]]
    /\ UNCHANGED <<viewVars, calls, storeVars, sideVars>>

\* a writer just constructed, and a store that holds one earlier session
InitResumed ==
    /\ hasBrief = FALSE /\ resumed = FALSE
    /\ ViewInit(0, NewWriter)
    /\ \E n \in 0..MaxStored :
        /\ sessions = [s \in {ResumedId} |-> n]
        /\ rows = OldRows(n)
    /\ blobs = {}
    /\ touches = {}
    /\ createPending = 0
    /\ now = 0
    /\ log = InitLog
    /\ del = NoDelete
    /\ NoSetupRun
    /\ NoResumeView
    /\ IdleStream

NextResumed ==
    \/ Resume
    \/ \E k \in CallIds, img \in BOOLEAN, clock \in Clocks : StartSave(k, img, clock)
    \/ StoreStep

SpecResumed == InitResumed /\ [][NextResumed]_vars

\* ------------------------------------------------------- deleteSession
\* a stored session of n messages, those in imgs with an image, and another
\* session of one message with an image; a row's turn stands for its $id
StoredRows(n, imgs) ==
    [i \in 1..(n + 1) |->
        [sid |-> IF i <= n THEN ResumedId ELSE OtherId,
         role |-> IF i % 2 = 1 THEN "user" ELSE "assistant",
         content |-> <<"old">>,
         fileId |-> IF i \in imgs \/ i = n + 1 THEN i ELSE NoFile,
         ts |-> 0, turn |-> i, call |-> "old"]]

RowSet == {rows[i] : i \in 1..Len(rows)}
Without(r) == SelectSeq(rows, LAMBDA x : x # r)

AnySettled(pending) == TRUE

\* await Promise.all(...): every deletion of the batch has settled
AllSettled(pending) == pending = {}

\* what deleteSession does once a batch has settled: the message deletions are
\* followed by the file deletions, and these by the deletion of the session
Proceed(d) ==
    IF d.phase = "messages" /\ AllSettled(d.pendingMsgs)
    THEN IF d.fileIds = {}
         THEN [d EXCEPT !.phase = "session"]
         ELSE [d EXCEPT !.phase = "files", !.pendingFiles = d.fileIds]
    ELSE IF d.phase = "files" /\ AllSettled(d.pendingFiles)
         THEN [d EXCEPT !.phase = "session"]
         ELSE d

\* deleteSession(sid) up to the listing of the session's message rows
DeleteSession(sid) ==
    /\ del.phase = "idle"
    /\ sid \in DOMAIN sessions
    /\ del' = [del EXCEPT !.phase = "listing", !.sid = sid]
    /\ UNCHANGED <<viewVars, writerVars, storeVars, log, streamVars, setupVars, navVars>>

\* listDocuments with Query.equal('sessionId'), Query.limit(100) and
\* Query.cursorAfter: the rows of the session after the cursor, in the
\* store's order, ListLimit of them at most
ListPage(sid, cursor) ==
    LET mine == SelectSeq(rows, LAMBDA r : r.sid = sid)
        at == IF cursor = NoCursor THEN 0
              ELSE CHOOSE i \in 1..Len(mine) : RowId(mine[i]) = cursor
        last == IF at + ListLimit < Len(mine) THEN at + ListLimit ELSE Len(mine)
    IN  SubSeq(mine, at + 1, last)

OnePageOnly(len) == TRUE

\* cursor = res.documents.length === 100 ? ... : undefined; while (cursor)
LastPage(len) == len # ListLimit

\* listDocuments resolved: the ids of the page are collected; after a full
\* page the next one is requested, else the message deletions are issued
ListOk ==
    /\ del.phase = "listing"
    /\ LET page == ListPage(del.sid, del.cursor)
           got == {page[i] : i \in 1..Len(page)}
           files == {r.fileId : r \in {x \in got : x.fileId # NoFile}}
           d1 == [del EXCEPT !.msgIds = @ \cup got, !.fileIds = @ \cup files,
                             !.pages = @ + 1]
       IN  del' = IF LastPage(Len(page))
                  THEN Proceed([d1 EXCEPT !.phase = "messages",
                                          !.cursor = NoCursor,
                                          !.pendingMsgs = d1.msgIds])
                  ELSE [d1 EXCEPT !.cursor = RowId(page[Len(page)])]
    /\ UNCHANGED <<viewVars, writerVars, storeVars, log, streamVars, setupVars, navVars>>

ListFail ==
    /\ del.phase = "listing"
    /\ del' = [del EXCEPT !.phase = "rejected", !.cause = "list"]
    /\ UNCHANGED <<viewVars, writerVars, storeVars, log, streamVars, setupVars, navVars>>

DeleteRowOk(r) ==
    /\ r \in del.pendingMsgs
    /\ rows' = Without(r)
    /\ del' = Proceed([del EXCEPT !.pendingMsgs = @ \ {r}])
    /\ UNCHANGED <<viewVars, writerVars, sessions, blobs, touches, createPending,
                   now, log, streamVars, setupVars, navVars>>

\* deleteDocument(...).catch(console.warn)
DeleteRowFail(r) ==
    /\ r \in del.pendingMsgs
    /\ del' = Proceed([del EXCEPT !.pendingMsgs = @ \ {r}, !.failedMsgs = @ \cup {r}])
    /\ UNCHANGED <<viewVars, writerVars, storeVars, log, streamVars, setupVars, navVars>>

DeleteFileOk(f) ==
    /\ f \in del.pendingFiles
    /\ blobs' = blobs \ {f}
    /\ del' = Proceed([del EXCEPT !.pendingFiles = @ \ {f}])
    /\ UNCHANGED <<viewVars, writerVars, sessions, rows, touches, createPending,
                   now, log, streamVars, setupVars, navVars>>

\* deleteFile(...).catch(() => null)
DeleteFileFail(f) ==
    /\ f \in del.pendingFiles
    /\ del' = Proceed([del EXCEPT !.pendingFiles = @ \ {f}, !.failedFiles = @ \cup {f}])
    /\ UNCHANGED <<viewVars, writerVars, storeVars, log, streamVars, setupVars, navVars>>

DeleteSessionRowOk ==
    /\ del.phase = "session"
    /\ sessions' = [s \in DOMAIN sessions \ {del.sid} |-> sessions[s]]
    /\ del' = [del EXCEPT !.phase = "resolved"]
    /\ UNCHANGED <<viewVars, writerVars, rows, blobs, touches, createPending,
                   now, log, streamVars, setupVars, navVars>>

DeleteSessionRowFail ==
    /\ del.phase = "session"
    /\ del' = [del EXCEPT !.phase = "rejected", !.cause = "session"]
    /\ UNCHANGED <<viewVars, writerVars, storeVars, log, streamVars, setupVars, navVars>>

InitDelete ==
    /\ hasBrief = FALSE /\ resumed = FALSE
    /\ ViewInit(0, NoWriter)
    /\ \E n \in 0..MaxStored : \E imgs \in SUBSET (1..n) :
        /\ sessions = [s \in {ResumedId, OtherId} |-> IF s = ResumedId THEN n ELSE 1]
        /\ rows = StoredRows(n, imgs)
        /\ blobs = imgs \cup {n + 1}
    /\ touches = {}
    /\ createPending = 0
    /\ now = 0
    /\ log = InitLog
    /\ del = NoDelete
    /\ NoSetupRun
    /\ NoResumeView
    /\ IdleStream

NextDelete ==
    \/ DeleteSession(ResumedId)
    \/ ListOk
    \/ ListFail
    \/ \E r \in del.pendingMsgs : DeleteRowOk(r)
    \/ \E r \in del.pendingMsgs : DeleteRowFail(r)
    \/ \E f \in del.pendingFiles : DeleteFileOk(f)
    \/ \E f \in del.pendingFiles : DeleteFileFail(f)
    \/ DeleteSessionRowOk
    \/ DeleteSessionRowFail

SpecDelete == InitDelete /\ [][NextDelete]_vars

\* a session of up to MaxPurged messages, every user message with an image or
\* none, deleted while no conversation runs and no deletion of a row or file
\* fails; deletions of distinct rows and files commute, and the store answers
\* them in the order of the rows and of the file ids
InitPurge ==
    /\ hasBrief = FALSE /\ resumed = FALSE
    /\ ViewInit(0, NoWriter)
    /\ \E n \in 0..MaxPurged, withImages \in BOOLEAN :
        LET imgs == IF withImages THEN {i \in 1..n : i % 2 = 1} ELSE {} IN
        /\ withImages => n > 0
        /\ sessions = [s \in {ResumedId, OtherId} |-> IF s = ResumedId THEN n ELSE 1]
        /\ rows = StoredRows(n, imgs)
        /\ blobs = imgs \cup {n + 1}
    /\ touches = {}
    /\ createPending = 0
    /\ now = 0
    /\ log = InitLog
    /\ del = NoDelete
    /\ NoSetupRun
    /\ NoResumeView
    /\ IdleStream

NextPurge ==
    \/ DeleteSession(ResumedId)
    \/ ListOk
    \/ ListFail
    \/ rows[1] \in del.pendingMsgs /\ DeleteRowOk(rows[1])
    \/ \E f \in del.pendingFiles :
            /\ \A g \in del.pendingFiles : f <= g
            /\ DeleteFileOk(f)
    \/ DeleteSessionRowOk
    \/ DeleteSessionRowFail

SpecPurge == InitPurge /\ [][NextPurge]_vars

\* the sidebar lists a session of the running conversation once a turn of it
\* was persisted: handleSend calls onSessionCreated after save('assistant')
\* and the sidebar reloads its list
SidebarLists(sid) ==
    \E i \in 1..Len(rows) : rows[i].sid = sid /\ rows[i].call = "asst"

\* a new conversation of up to MaxTurns turns whose session the user deletes
\* from the sidebar at any time after it is listed; the view is a new-chat
\* view, so handleDelete does not navigate away and the writer lives on.
\* No request of the conversation or of the deletion fails here
NextDeleteDuringChat ==
    \/ \E text \in Texts, img \in BOOLEAN, clock \in Clocks : Submit(text, img, clock)
    \/ EncodeOk
    \/ FetchOk
    \/ Chunk
    \/ \E clock \in Clocks : StreamDone(clock)
    \/ \E clock \in Clocks : CreateSessionOk(clock)
    \/ \E k \in CallIds, clock \in Clocks : UploadOk(k, clock)
    \/ \E k \in CallIds, clock \in Clocks : CreateRowOk(k, clock)
    \/ \E k \in CallIds, clock \in Clocks : DownloadDone(k, TRUE, clock)
    \/ \E s \in DOMAIN sessions : SidebarLists(s) /\ DeleteSession(s)
    \/ ListOk
    \/ \E r \in del.pendingMsgs : DeleteRowOk(r)
    \/ \E f \in del.pendingFiles : DeleteFileOk(f)
    \/ DeleteSessionRowOk

SpecDeleteDuringChat == Init /\ [][NextDeleteDuringChat]_vars

\* -------------------------------------------------- the setup script
\* main: what it ensures, in its order
Steps ==
    << [kind |-> "collection", item |-> "sessions"],
       [kind |-> "attr", item |-> "sessions.userId"],
       [kind |-> "attr", item |-> "sessions.title"],
       [kind |-> "attr", item |-> "sessions.personaSettings"],
       [kind |-> "attr", item |-> "sessions.messageCount"],
       [kind |-> "attr", item |-> "sessions.lastMessageAt"],
       [kind |-> "attr", item |-> "sessions.createdAt"],
       [kind |-> "index", item |-> "sessions.idx_userId"],
       [kind |-> "index", item |-> "sessions.idx_lastMessageAt"],
       [kind |-> "collection", item |-> "messages"],
       [kind |-> "attr", item |-> "messages.sessionId"],
       [kind |-> "attr", item |-> "messages.role"],
       [kind |-> "attr", item |-> "messages.content"],
       [kind |-> "attr", item |-> "messages.storageFileId"],
       [kind |-> "attr", item |-> "messages.timestamp"],
       [kind |-> "index", item |-> "messages.idx_sessionId"],
       [kind |-> "index", item |-> "messages.idx_timestamp"],
       [kind |-> "bucket", item |-> "chat-images"] >>

Containers == {"sessions", "messages", "chat-images"}
AllItems == {Steps[i].item : i \in 1..Len(Steps)}

\* read, create, update and delete for Role.users()
UsersPerms == "users"

\* what a complete run leaves
Provisioned == [have |-> AllItems, perms |-> [c \in Containers |-> UsersPerms]]

NeverFound(item) == FALSE

\* getCollection / getAttribute / getIndex / getBucket did not throw
Found(item) == item \in schema.have

\* the step after this one, or the end of main
Advance(st) ==
    IF st.step = Len(Steps)
    THEN [st EXCEPT !.phase = "none", !.status = "succeeded"]
    ELSE [st EXCEPT !.step = @ + 1, !.phase = "get"]

\* npm run setup:appwrite
StartSetup ==
    /\ setup.status # "running"
    /\ setup.run < MaxRuns
    /\ setup' = [run |-> setup.run + 1, step |-> 1, phase |-> "get",
                 status |-> "running", created |-> {}, patched |-> {},
                 afterSuccess |-> setup.status = "succeeded",
                 startedOn |-> schema, storeFault |-> FALSE]
    /\ UNCHANGED <<schema, viewVars, writerVars, storeVars, log, streamVars, del, navVars>>

\* the get of an ensure function answered: a collection or bucket found is
\* patched, an attribute or index found is skipped, what is absent is created
GetAnswered ==
    /\ setup.status = "running" /\ setup.phase = "get"
    /\ setup' = IF ~Found(Steps[setup.step].item)
                THEN [setup EXCEPT !.phase = "create"]
                ELSE IF Steps[setup.step].kind \in {"collection", "bucket"}
                     THEN [setup EXCEPT !.phase = "update"]
                     ELSE Advance(setup)
    /\ UNCHANGED <<schema, viewVars, writerVars, storeVars, log, streamVars, del, navVars>>

CreateOk ==
    /\ setup.status = "running" /\ setup.phase = "create"
    /\ LET it == Steps[setup.step].item IN
        /\ it \notin schema.have
        /\ schema' = [have |-> schema.have \cup {it},
                      perms |-> IF it \in Containers
                                THEN [schema.perms EXCEPT ![it] = UsersPerms]
                                ELSE schema.perms]
        /\ setup' = Advance([setup EXCEPT !.created = @ \cup {it}])
    /\ UNCHANGED <<viewVars, writerVars, storeVars, log, streamVars, del, navVars>>

\* the create call rejected (what it creates exists already, or the store
\* failed): main().catch exits with status 1
CreateFail ==
    /\ setup.status = "running" /\ setup.phase = "create"
    /\ setup' = [setup EXCEPT !.phase = "none", !.status = "failed",
                              !.storeFault = Steps[setup.step].item \notin schema.have]
    /\ UNCHANGED <<schema, viewVars, writerVars, storeVars, log, streamVars, del, navVars>>

\* updateCollection / updateBucket with the permissions of Role.users()
UpdateOk ==
    /\ setup.status = "running" /\ setup.phase = "update"
    /\ LET it == Steps[setup.step].item IN
        /\ schema' = [schema EXCEPT !.perms[it] = UsersPerms]
        /\ setup' = Advance([setup EXCEPT !.patched = @ \cup {it}])
    /\ UNCHANGED <<viewVars, writerVars, storeVars, log, streamVars, del, navVars>>

UpdateFail ==
    /\ setup.status = "running" /\ setup.phase = "update"
    /\ setup' = [setup EXCEPT !.phase = "none", !.status = "failed",
                              !.storeFault = TRUE]
    /\ UNCHANGED <<schema, viewVars, writerVars, storeVars, log, streamVars, del, navVars>>

\* a project in which any of the two collections and the bucket may have been
\* made by hand, with permissions of its own and nothing in it
InitSetup ==
    /\ hasBrief = FALSE /\ resumed = FALSE
    /\ ViewInit(0, NoWriter)
    /\ InitStore
    /\ del = NoDelete
    /\ NoResumeView
    /\ IdleStream
    /\ \E made \in SUBSET Containers :
        schema = [have |-> made,
                  perms |-> [c \in Containers |->
                                IF c \in made THEN "custom" ELSE "none"]]
    /\ setup = NoSetup

NextSetup ==
    \/ StartSetup
    \/ GetAnswered
    \/ CreateOk
    \/ CreateFail
    \/ UpdateOk
    \/ UpdateFail

SpecSetup == InitSetup /\ [][NextSetup]_vars

\* ------------------------------------------------ a resumed conversation
\* hydrateMessage: the transcript entry of a stored row; the ids of stored
\* rows are below those of the entries made by handleSend
Hydrate(rs) ==
    [i \in 1..Len(rs) |-> Entry(0 - i, rs[i].role, rs[i].content, "none")]

\* App.tsx view 'resume', once the resume effect has run and the stored
\* messages are loaded: the transcript holds them and the writer knows the
\* session
InitResumedChat ==
    /\ hasBrief = FALSE /\ resumed = TRUE
    /\ turnLimit = MaxCountedTurns
    /\ input = "" /\ selectedImage = FALSE
    /\ isLoading = FALSE
    /\ pc = "idle"
    /\ turn = 0
    /\ cur = NoLocals
    /\ calls = [k \in CallIds |-> IdleCall]
    /\ \E n \in 0..MaxStored :
        /\ sessions = [s \in {ResumedId} |-> n]
        /\ rows = OldRows(n)
        /\ messages = Hydrate(OldRows(n))
        /\ writer = SetExistingSession(NewWriter, ResumedId, n)
    /\ blobs = {}
    /\ touches = {}
    /\ createPending = 0
    /\ now = 0
    /\ log = InitLog
    /\ del = NoDelete
    /\ NoSetupRun
    /\ loadingHistory = FALSE
    /\ resumeSession = ResumedId
    /\ loads = <<>>
    /\ writerRef = NotReplaced
    /\ IdleStream

\* a conversation, new or resumed
InitChat == Init \/ InitResumedChat

SpecChat == InitChat /\ [][Next]_vars

\* ------------------------------------------------------ the input form
\* Textarea onChange: setInput(e.target.value); disabled while loading
SetInput(text) ==
    /\ ~Disabled
    /\ text # input
    /\ input' = text
    /\ UNCHANGED <<messages, isLoading, pc, turn, cur, hasBrief, resumed, turnLimit,
                   selectedImage, writerVars, storeVars, log, sideVars>>

\* ImageUploader onImageSelect: setSelectedImage(file or null)
SetSelectedImage(img) ==
    /\ ~isLoading
    /\ img # selectedImage
    /\ selectedImage' = img
    /\ UNCHANGED <<messages, isLoading, pc, turn, cur, hasBrief, resumed, turnLimit,
                   input, writerVars, storeVars, log, sideVars>>

\* handleSend, called by the Enter key or the Send button on what the form holds
HandleSend(clock) ==
    /\ ~Disabled
    /\ IF EarlyReturn(input, selectedImage)
       THEN /\ log.rejects < MaxRejects
            /\ log' = [log EXCEPT !.rejects = @ + 1]
            /\ UNCHANGED <<viewVars, writerVars, storeVars, sideVars>>
       ELSE Submit(input, selectedImage, clock)

InitInput == NewChat(MaxCountedTurns)

NextInput ==
    \/ \E text \in InputTexts : SetInput(text)
    \/ \E img \in BOOLEAN : SetSelectedImage(img)
    \/ \E clock \in Clocks : HandleSend(clock)
    \/ ModelStep
    \/ StoreStep

SpecInput == InitInput /\ [][NextInput]_vars

\* ------------------------------------------- sendStreamingChatMessage
NL == "\n"

\* the lines an endpoint may send, one character per JSON token:
\*   {a}  {"message":{"content":"a"}}      {}    an object without content
\*   {!}  {"error":"..."}                  {a    a truncated object
\*   " "  a blank line                     n     the literal null
\*   {a!} an object with content and an error field
LineForms ==
    { <<"{", "a", "}">>, <<"{", "b", "}">>, <<"{", "}">>, <<"{", "!", "}">>,
      <<"{", "a", "!", "}">>, <<"{", "a">>, <<" ">>, <<"n">> }

RECURSIVE Join(_, _)
Join(ls, term) ==
    IF ls = <<>> THEN <<>>
    ELSE IF Len(ls) = 1 THEN ls[1] \o (IF term THEN <<NL>> ELSE <<>>)
    ELSE ls[1] \o <<NL>> \o Join(Tail(ls), term)

\* the response body
Bytes == Join(lines, terminated)

\* String.prototype.split('\n')
RECURSIVE Split(_)
Split(text) ==
    IF \A i \in 1..Len(text) : text[i] # NL THEN <<text>>
    ELSE LET i == CHOOSE j \in 1..Len(text) :
                    text[j] = NL /\ \A h \in 1..(j - 1) : text[h] # NL
         IN  <<SubSeq(text, 1, i - 1)>> \o Split(SubSeq(text, i + 1, Len(text)))

RECURSIVE Trim(_)
Trim(line) ==
    IF line = <<>> THEN <<>>
    ELSE IF Head(line) = " " THEN Trim(Tail(line))
    ELSE IF line[Len(line)] = " " THEN Trim(SubSeq(line, 1, Len(line) - 1))
    ELSE line

\* JSON.parse: an object holds any of the members a, b (content) and ! (error)
JSONParse(line) ==
    LET t == Trim(line)
        body == SubSeq(t, 2, Len(t) - 1)
        texts == {i \in 1..Len(body) : body[i] \in {"a", "b"}}
    IN  IF /\ Len(t) >= 2 /\ t[1] = "{" /\ t[Len(t)] = "}"
           /\ \A i \in 1..Len(body) : body[i] \in {"a", "b", "!"}
        THEN [kind |-> "object",
              content |-> IF texts = {} THEN ""
                          ELSE body[CHOOSE i \in texts : \A j \in texts : j <= i],
              error |-> \E i \in 1..Len(body) : body[i] = "!"]
        ELSE IF t = <<"n">>
        THEN [kind |-> "null", content |-> "", error |-> FALSE]
        ELSE [kind |-> "syntax", content |-> "", error |-> FALSE]

CatchRethrows(kind) == "throw"

CatchSwallows(kind) == "skip"

\* the catch of the line loop: a SyntaxError is logged, anything else (the
\* TypeError of reading a member of null, the Error of an error line) rethrown
Catch(kind) == IF kind = "syntax" THEN "skip" ELSE "throw"

DropTail(pieces) == <<>>

\* buffer = lines.pop() || ''
KeepTail(pieces) == pieces[Len(pieces)]

\* the for loop over the complete lines of one read
RECURSIVE ParseLines(_, _)
ParseLines(ls, out) ==
    IF ls = <<>> THEN [out |-> out, st |-> "reading"]
    ELSE IF Trim(Head(ls)) = <<>> THEN ParseLines(Tail(ls), out)
    ELSE LET data == JSONParse(Head(ls))
             out1 == IF data.content # "" THEN Append(out, data.content) ELSE out
         IN  IF data.kind # "object"
             THEN IF Catch(data.kind) = "skip"
                  THEN ParseLines(Tail(ls), out)
                  ELSE [out |-> out, st |-> "rejected"]
             ELSE IF data.error /\ Catch("error") = "throw"
                  THEN [out |-> out1, st |-> "rejected"]
                  ELSE ParseLines(Tail(ls), out1)

\* reader.read() resolved with the next n bytes of the body
Read(r, n) ==
    /\ rd[r].st = "reading"
    /\ rd[r].pos + n <= Len(Bytes)
    /\ LET text == rd[r].buffer \o SubSeq(Bytes, rd[r].pos + 1, rd[r].pos + n)
           pieces == Split(text)
           res == ParseLines(SubSeq(pieces, 1, Len(pieces) - 1), rd[r].out)
       IN  rd' = [rd EXCEPT ![r] = [pos |-> rd[r].pos + n,
                                    cut |-> rd[r].cut \/ pieces[Len(pieces)] # <<>>,
                                    buffer |-> KeepTail(pieces),
                                    out |-> res.out,
                                    st |-> res.st]]
    /\ UNCHANGED <<lines, terminated, del, setupVars, navVars, viewVars, writerVars, storeVars, log>>

\* reader.read() resolved with done: the loop ends and the promise resolves
ReadDone(r) ==
    /\ rd[r].st = "reading"
    /\ rd[r].pos = Len(Bytes)
    /\ rd' = [rd EXCEPT ![r].st = "resolved"]
    /\ UNCHANGED <<lines, terminated, del, setupVars, navVars, viewVars, writerVars, storeVars, log>>

\* two calls of sendStreamingChatMessage on the same response body, each
\* receiving it in reads of its own sizes
InitStream ==
    /\ lines \in UNION {[1..n -> LineForms] : n \in 0..MaxLines}
    /\ terminated \in BOOLEAN
    /\ rd = [r \in Readers |->
                [pos |-> 0, cut |-> FALSE, buffer |-> <<>>, out |-> <<>>, st |-> "reading"]]
    /\ hasBrief = FALSE /\ resumed = FALSE
    /\ AppInit(0, NoWriter)

NextStream ==
    \/ \E r \in Readers, n \in 1..MaxRead : Read(r, n)
    \/ \E r \in Readers : ReadDone(r)

SpecStream == InitStream /\ [][NextStream]_vars

\* ------------------------------------------------- loadSessionMessages
\* a stored session of n messages and another session of one message, all
\* without images; with swap the second row carries the earliest timestamp,
\* as the row of a brief created after the first user row does
DatedRows(n, swap) ==
    [i \in 1..(n + 1) |->
        [sid |-> IF i <= n THEN ResumedId ELSE OtherId,
         role |-> IF i % 2 = 1 THEN "user" ELSE "assistant",
         content |-> IF i <= n THEN <<"old">> ELSE <<"other">>,
         fileId |-> NoFile,
         ts |-> (IF swap /\ i = 1 THEN 2 ELSE IF swap /\ i = 2 THEN 1 ELSE i)
                    - (n + 2),
         turn |-> i, call |-> "old"]]

Earlier(a, b) == a.ts < b.ts

\* fetchMessages: the rows of the session ordered ascending by timestamp,
\* those after the cursor, limit of them at most
FetchMessages(sid, limit, cursor) ==
    LET mine == SortSeq(SelectSeq(rows, LAMBDA r : r.sid = sid), Earlier)
        at == IF cursor = NoCursor THEN 0
              ELSE CHOOSE i \in 1..Len(mine) : RowId(mine[i]) = cursor
        last == IF at + limit < Len(mine) THEN at + limit ELSE Len(mine)
    IN  SubSeq(mine, at + 1, last)

\* loadSessionMessages up to its first fetchMessages
NewLoad(sid) ==
    [sid |-> sid, all |-> <<>>, cursor |-> NoCursor, st |-> "fetching",
     fetches |-> 0]

AgainUncapped(cursor, total) == cursor # NoCursor

\* while (cursor && all.length < MAX_MESSAGES)
Again(cursor, total) == cursor # NoCursor /\ total < MAX_MESSAGES

\* one round of the do-while loop, on the batch that fetchMessages resolved with
Fetched(l) ==
    LET batch == FetchMessages(l.sid, PageSize, l.cursor)
        all == l.all \o batch
        cursor == IF Len(batch) = PageSize THEN RowId(batch[Len(batch)])
                  ELSE NoCursor
    IN  [l EXCEPT !.all = all, !.cursor = cursor, !.fetches = @ + 1,
                  !.st = IF Again(cursor, Len(all)) THEN "fetching"
                         ELSE "resolved"]

\* fetchMessages resolved: the loop goes on, or loadSessionMessages resolves
\* (the stored rows of the model carry no image to download) and the effect
\* sets the transcript and clears loadingHistory
PageOk(i) ==
    /\ loads[i].st = "fetching"
    /\ LET l == Fetched(loads[i]) IN
        /\ loads' = [loads EXCEPT ![i] = l]
        /\ IF l.st = "resolved"
           THEN messages' = Hydrate(l.all) /\ loadingHistory' = FALSE
           ELSE UNCHANGED <<messages, loadingHistory>>
    /\ UNCHANGED <<isLoading, pc, turn, cur, hasBrief, resumed, turnLimit, input,
                   selectedImage, writerVars, storeVars, log, streamVars, del,
                   setupVars, resumeSession, writerRef>>

\* fetchMessages rejected: .catch(console.error).finally(...)
PageFail(i) ==
    /\ MayFail
    /\ loads[i].st = "fetching"
    /\ loads' = [loads EXCEPT ![i].st = "rejected"]
    /\ loadingHistory' = FALSE
    /\ log' = Fault(log)
    /\ UNCHANGED <<messages, isLoading, pc, turn, cur, hasBrief, resumed,
                   turnLimit, input, selectedImage, writerVars, storeVars,
                   streamVars, del, setupVars, resumeSession, writerRef>>

\* App.tsx view 'resume', mounted on session sid whose summary counts count
\* messages: the resume effect has started the load and made the writer
ResumeView(limit, sid, count) ==
    /\ hasBrief = FALSE /\ resumed = TRUE
    /\ turnLimit = limit
    /\ input = "" /\ selectedImage = FALSE
    /\ messages = <<>>
    /\ isLoading = FALSE
    /\ pc = "idle"
    /\ turn = 0
    /\ cur = NoLocals
    /\ calls = [k \in CallIds |-> IdleCall]
    /\ writer = SetExistingSession(NewWriter, sid, count)
    /\ writerRef = NotReplaced
    /\ loadingHistory = TRUE
    /\ resumeSession = sid
    /\ loads = <<NewLoad(sid)>>

\* a store that holds the two sessions, nothing in flight
InitHistory(n, swap) ==
    /\ sessions = [s \in {ResumedId, OtherId} |-> IF s = ResumedId THEN n ELSE 1]
    /\ rows = DatedRows(n, swap)
    /\ blobs = {}
    /\ touches = {}
    /\ createPending = 0
    /\ now = 0
    /\ log = InitLog
    /\ del = NoDelete
    /\ NoSetupRun
    /\ IdleStream

\* the view resumes a session of up to MaxHistory messages and is left alone
InitLoad ==
    \E n \in 0..MaxHistory, swap \in BOOLEAN :
        /\ swap => n >= 2
        /\ InitHistory(n, swap)
        /\ ResumeView(0, ResumedId, n)

NextLoad ==
    \/ \E i \in 1..Len(loads) : PageOk(i)
    \/ \E i \in 1..Len(loads) : PageFail(i)

SpecLoad == InitLoad /\ [][NextLoad]_vars

\* ------------------------------------------- switching the resumed session
\* HistorySidebar: a click on a session other than the active one calls
\* onSelectSession; App sets the view to it, and in the ChatInterface that
\* stays mounted the resume effect runs for the new resumeSession.$id: it
\* starts a load and puts a new writer, told the id and the count of the
\* session's summary, in writerRef
SelectSession(s) ==
    /\ resumeSession # NoSession
    /\ s \in DOMAIN sessions /\ s # resumeSession
    /\ Len(loads) <= MaxSwitches
    /\ resumeSession' = s
    /\ loadingHistory' = TRUE
    /\ loads' = Append(loads, NewLoad(s))
    /\ writerRef' = [replaced |-> TRUE,
                     w |-> SetExistingSession(NewWriter, s, sessions[s])]
    /\ UNCHANGED <<viewVars, writerVars, storeVars, log, streamVars, del,
                   setupVars>>

\* a resumed conversation of one turn in which the user may select the other
\* session at any time
InitSwitch ==
    \E n \in 0..MaxStored, swap \in BOOLEAN :
        /\ swap => n >= 2
        /\ InitHistory(n, swap)
        /\ ResumeView(MaxCountedTurns, ResumedId, n)

NextSwitch ==
    \/ \E s \in {ResumedId, OtherId} : SelectSession(s)
    \/ \E i \in 1..Len(loads) : PageOk(i)
    \/ \E i \in 1..Len(loads) : PageFail(i)
    \/ \E text \in Texts, img \in BOOLEAN, clock \in Clocks : Submit(text, img, clock)
    \/ ModelStep
    \/ \E k \in CallIds, clock \in Clocks : UploadOk(k, clock)
    \/ \E k \in CallIds, clock \in Clocks : UploadFail(k, clock)
    \/ \E k \in CallIds, clock \in Clocks : CreateRowOk(k, clock)
    \/ \E k \in CallIds, clock \in Clocks : CreateRowFail(k, clock)
    \/ \E k \in CallIds, ok \in BOOLEAN, clock \in Clocks : DownloadDone(k, ok, clock)

SpecSwitch == InitSwitch /\ [][NextSwitch]_vars

\* ------------------------------------------------------------------ claims
RowsOf(s) == {i \in 1..Len(rows) : rows[i].sid = s}
Placeholder == CHOOSE i \in 1..Len(messages) : messages[i].id = AssistantEntryId(turn)

\* C1: on one fresh SessionWriter, however the save / saveInitialBrief calls
\* overlap, exactly one createSession call is issued, at most one session row
\* exists (exactly one once the creation resolved), and every call and every
\* message row carries that one session identifier.
C1_SingleSession ==
    /\ log.createCalls = IF log.starts > 0 THEN 1 ELSE 0
    /\ createPending <= 1
    /\ Cardinality(DOMAIN sessions) =
            IF writer.sessionCreating = "resolved" THEN 1 ELSE 0
    /\ \A k \in CallIds :
            calls[k].sid # NoSession =>
                calls[k].sid = writer.sessionId /\ calls[k].sid \in DOMAIN sessions
    /\ \A i \in 1..Len(rows) : rows[i].sid = writer.sessionId

\* two calls awaited the same pending creation and both obtained its session
C1_Witness ==
    \E k1, k2 \in CallIds :
        /\ k1 # k2
        /\ calls[k1].waited /\ calls[k2].waited
        /\ calls[k1].sid = writer.sessionId /\ calls[k2].sid = writer.sessionId
        /\ writer.sessionId # NoSession
        /\ log.createCalls = 1

\* C2 as stated: after a non-success status the placeholder shows the
\* diagnostic and no message row was created between the submit and the end
\* of handleSend.
C2_NoRowsDuringFailedTurn ==
    (pc = "idle" /\ log.outcome = "notOk") =>
        /\ messages[Placeholder].content = Diagnostic
        /\ log.rowsAtEnd = log.rowsAtSubmit

\* C2 amended: after a non-success status the placeholder shows the diagnostic
\* and no user or assistant row of that turn is ever created; the only rows
\* created since the submit are those of the opening brief.
C2_NoTurnRowsAfterFailedFetch ==
    (pc = "idle" /\ log.outcome = "notOk") =>
        /\ messages[Placeholder].content = Diagnostic
        /\ \A i \in 1..Len(rows) : rows[i].turn # turn
        /\ \A i \in 1..Len(rows) : i > log.rowsAtSubmit => rows[i].call = "brief"
        /\ calls["user"].turn # turn /\ calls["asst"].turn # turn

C2_Witness ==
    /\ pc = "idle" /\ log.outcome = "notOk" /\ turn = 1
    /\ messages[Placeholder].content = Diagnostic
    /\ log.rowsAtEnd > log.rowsAtSubmit

\* C3: when the stream succeeded and persistence failed, the placeholder holds
\* exactly the streamed fragments in order, and every other transcript entry
\* is as it was when the stream ended.
C3_StreamedContentKept ==
    (pc = "idle" /\ log.outcome = "persistFailed") =>
        /\ Len(messages) = Len(log.atStreamEnd)
        /\ \A i \in 1..Len(messages) :
            IF messages[i].id = AssistantEntryId(turn)
                THEN messages[i].content = log.streamed
                ELSE messages[i] = log.atStreamEnd[i]

C3_Witness ==
    /\ pc = "idle" /\ log.outcome = "persistFailed"
    /\ Len(log.streamed) >= 2
    /\ calls["user"].failedAt = "upload"
    /\ messages[Placeholder].content = log.streamed

\* C4: a message row with a blob reference refers to a blob whose upload had
\* succeeded before the row was requested, and a call whose upload failed
\* creates no row.
C4_BlobBeforeReference ==
    /\ \A i \in 1..Len(rows) :
            rows[i].fileId # NoFile => rows[i].fileId \in log.uploaded
    /\ \A k \in CallIds :
            (calls[k].stage = "creating" /\ calls[k].fileId # NoFile)
                => calls[k].fileId \in log.uploaded
    /\ \A k \in CallIds :
            calls[k].failedAt = "upload" =>
                ~\E i \in 1..Len(rows) :
                    rows[i].call = k /\ rows[i].turn = calls[k].turn

C4_Witness ==
    /\ \E i \in 1..Len(rows) : rows[i].fileId # NoFile /\ rows[i].fileId \in blobs
    /\ \E k \in CallIds : calls[k].failedAt = "upload"

\* C5 as stated: at most one of the writer's appends is in flight at a time.
C5_OneAppendInFlight ==
    Cardinality({k \in CallIds : InFlight(calls[k])}) <= 1

\* C5 amended: the user and assistant saves of a turn never overlap, the
\* assistant's being issued only once the user's has completed; the append of
\* saveInitialBrief is not awaited and may be in flight beside them.
C5_SavesSerial ==
    /\ ~(Running(calls["user"]) /\ Running(calls["asst"]))
    /\ calls["asst"].stage # "idle" => calls["user"].stage = "done"

C5_Witness ==
    /\ InFlight(calls["brief"]) /\ InFlight(calls["user"])
    /\ calls["asst"].stage = "idle"

\* C6: the user row of an exchange is created before its assistant row, and
\* timestamps never decrease along the conversation: brief, then each turn's
\* user row, then its assistant row.
Position(r) ==
    IF r.call = "brief" THEN 0
    ELSE IF r.call = "user" THEN 2 * r.turn - 1 ELSE 2 * r.turn

C6_TimestampsFollowConversation ==
    \A i, j \in 1..Len(rows) :
        /\ Position(rows[i]) < Position(rows[j]) => rows[i].ts <= rows[j].ts
        /\ (rows[i].turn = rows[j].turn /\ rows[i].call = "user"
                /\ rows[j].call = "asst") => i < j

C6_Witness ==
    /\ \E i, j \in 1..Len(rows) :
        /\ rows[i].call = "user" /\ rows[j].call = "asst"
        /\ rows[i].turn = 2 /\ rows[j].turn = 2
        /\ rows[i].ts < rows[j].ts
    /\ \E i \in 1..Len(rows) : rows[i].call = "asst" /\ rows[i].turn = 1

\* C7: every accepted submit is followed by a return to Idle (isLoading
\* false, no handleSend running), provided every pending call is answered.
C7_ReturnsToIdle == isLoading ~> (~isLoading /\ pc = "idle")

C7_Witness ==
    /\ turn = 2 /\ pc = "idle" /\ ~isLoading
    /\ log.outcome = "persistFailed"
    /\ \E i \in 1..Len(rows) : rows[i].turn = 1 /\ rows[i].call = "asst"

\* C8: once no call is pending and every touchSession has been applied
\* successfully, the session's messageCount is its number of message rows.
C8_CountEqualsRows ==
    \A s \in DOMAIN sessions :
        ( /\ \A k \in CallIds : ~Running(calls[k])
          /\ createPending = 0
          /\ touches = {}
          /\ ~log.touchFailed )
        => sessions[s] = Cardinality(RowsOf(s))


HasContent(l) ==
    JSONParse(l).kind = "object" /\ JSONParse(l).content # "" /\ ~JSONParse(l).error
Unparseable(l) == Trim(l) # <<>> /\ JSONParse(l).kind = "syntax"
ValidBadValid ==
    /\ Len(lines) = 3 /\ terminated
    /\ HasContent(lines[1]) /\ Unparseable(lines[2]) /\ HasContent(lines[3])
IsPrefix(p, q) == Len(p) <= Len(q) /\ p = SubSeq(q, 1, Len(p))

\* C9: for a stream of a valid line, a line that is not JSON and another valid
\* line, the callback receives exactly the two valid fragments, in order, and
\* the call resolves without an error.
C9_MalformedLineSkipped ==
    ValidBadValid =>
        \A r \in Readers :
            LET want == <<JSONParse(lines[1]).content, JSONParse(lines[3]).content>>
            IN  /\ rd[r].st # "rejected"
                /\ IsPrefix(rd[r].out, want)
                /\ rd[r].st = "resolved" => rd[r].out = want

C9_Witness ==
    /\ ValidBadValid
    /\ rd[1].st = "resolved" /\ rd[1].out = <<"a", "b">>

\* C10: two calls that receive the same body in different reads deliver the
\* same fragments in the same order and end the same way.
C10_SplitIndependent ==
    (rd[1].st # "reading" /\ rd[2].st # "reading") =>
        rd[1].out = rd[2].out /\ rd[1].st = rd[2].st

\* of the same three lines one call had reads that ended inside a line, the
\* other only reads that ended at a line end, and both delivered both fragments
C10_Witness ==
    /\ Len(lines) = 3
    /\ rd[1].st = "resolved" /\ rd[2].st = "resolved"
    /\ rd[1].cut /\ ~rd[2].cut
    /\ rd[1].out = <<"a", "b">> /\ rd[2].out = <<"a", "b">>

\* the line is complete: a newline follows it
Complete(i) == i < Len(lines) \/ terminated
ErrorLine(i) ==
    Complete(i) /\ JSONParse(lines[i]).kind = "object" /\ JSONParse(lines[i]).error
\* the number of bytes up to and including the newline of line i
EndOf(i) == Len(Join(SubSeq(lines, 1, i), TRUE))
\* the fragments of lines 1..i
RECURSIVE ContentsUpTo(_)
ContentsUpTo(i) ==
    IF i = 0 THEN <<>>
    ELSE IF JSONParse(lines[i]).content # ""
         THEN Append(ContentsUpTo(i - 1), JSONParse(lines[i]).content)
         ELSE ContentsUpTo(i - 1)
\* line i is the first complete line with an error field, and no line before
\* it ends the call for another reason
FirstErrorLine(i) ==
    /\ i \in 1..Len(lines) /\ ErrorLine(i)
    /\ \A j \in 1..(i - 1) : ~ErrorLine(j) /\ JSONParse(lines[j]).kind # "null"

\* C11: once a complete line with an error field has been read the call is
\* rejected, the callback has received the fragments of the lines up to that
\* line and nothing of a later line, and a rejected call never changes what
\* it delivered.
C11_ErrorLineAborts ==
    /\ [](\A r \in Readers, i \in 1..Len(lines) :
            FirstErrorLine(i) =>
                /\ rd[r].st # "resolved"
                /\ IsPrefix(rd[r].out, ContentsUpTo(i))
                /\ rd[r].pos >= EndOf(i) =>
                        rd[r].st = "rejected" /\ rd[r].out = ContentsUpTo(i))
    /\ [][\A r \in Readers : IsPrefix(rd[r].out, rd'[r].out)
                             /\ (rd[r].st = "rejected" => rd'[r] = rd[r])]_vars

\* a fragment, an error line and another fragment: the call is rejected having
\* delivered the first fragment only
C11_Witness ==
    /\ Len(lines) = 3 /\ FirstErrorLine(2)
    /\ HasContent(lines[1]) /\ HasContent(lines[3])
    /\ rd[1].st = "rejected" /\ rd[1].out = <<"a">>

\* C12: a call of handleSend on blank text and no selected image changes
\* nothing: transcript, input, loading flag, selected image and writer stay as
\* they are, and no call to the model endpoint or the store is started.
C12_EmptySubmitNoOp ==
    [][(turn' + log'.rejects # turn + log.rejects
            /\ Blank(input) /\ ~selectedImage)
        => UNCHANGED <<messages, input, isLoading, selectedImage, pc, turn, cur,
                       writer, calls, sessions, rows, blobs, touches,
                       createPending>>]_vars

\* handleSend returned early on a blank text, in a conversation of one turn
C12_Witness ==
    /\ log.rejects = 1 /\ input = " " /\ ~selectedImage
    /\ turn = 1 /\ pc = "idle" /\ Len(messages) = 3

HasRow(k) == \E i \in 1..Len(rows) : rows[i].call = k /\ rows[i].turn = calls[k].turn

\* C13: whatever becomes of the touchSession requests, a save whose message
\* row was created does not fail, the writer's counter has grown by one for
\* each row, and a turn whose two rows were created ends as persisted.
C13_TouchFailureDoesNotFailSave ==
    /\ \A k \in CallIds :
            HasRow(k) => calls[k].stage \in {"downloading", "done"}
                         /\ calls[k].failedAt = "none"
    /\ writer.messageCount = Len(rows)
    /\ ( /\ pc = "idle" /\ turn > 0
          /\ calls["user"].turn = turn /\ calls["asst"].turn = turn
          /\ HasRow("user") /\ HasRow("asst") ) => log.outcome = "persisted"

\* both touchSession requests of a turn were rejected: the session row still
\* counts 0, both saves resolved and the turn ended as persisted
C13_Witness ==
    /\ log.touchFailed /\ touches = {}
    /\ calls["user"].stage = "done" /\ calls["asst"].stage = "done"
    /\ Len(rows) = 2 /\ writer.messageCount = 2
    /\ sessions[writer.sessionId] = 0
    /\ pc = "idle" /\ log.outcome = "persisted"

\* C14: a writer on which setExistingSession(id, count) was called issues no
\* createSession; each of its calls and each row it creates carries id, and
\* the count it sends with the first row it creates is count + 1.
C14_ResumedWriterNeverCreates ==
    log.resumed =>
        /\ log.createCalls = 0 /\ createPending = 0
        /\ DOMAIN sessions = {ResumedId}
        /\ writer.sessionId = ResumedId
        /\ \A k \in CallIds :
                /\ calls[k].stage # "waitSession"
                /\ calls[k].stage # "idle" => calls[k].sid = ResumedId
        /\ \A i \in 1..Len(rows) : rows[i].sid = ResumedId
        /\ \A t \in touches : t.sid = ResumedId /\ t.count > log.resumeCount
        /\ Len(rows) > log.resumeCount =>
                \E t \in touches : /\ t.count = log.resumeCount + 1
                                   /\ t.call = rows[log.resumeCount + 1].call
        /\ writer.messageCount = Len(rows)

\* a session of two messages was resumed and two more saved: the counts sent
\* are 3 and 4
C14_Witness ==
    /\ log.resumed /\ log.resumeCount = 2
    /\ Len(rows) = 4
    /\ {t.count : t \in touches} = {3, 4}

\* C15: deleteSession requests the deletion of the session row only when
\* every message and file deletion has settled, the files only after the
\* messages; it is rejected only by the listing or by the deletion of the
\* session row itself, never by a failed message or file deletion; once it
\* resolved the session row is gone, what is left of the session is exactly
\* what failed to be deleted, and the other session is untouched.
C15_SessionRowDeletedLast ==
    /\ del.phase \in {"files", "session", "resolved"} => del.pendingMsgs = {}
    /\ del.phase \in {"session", "resolved"} => del.pendingFiles = {}
    /\ del.phase = "messages" => del.pendingMsgs # {}
    /\ del.phase = "files" => del.pendingFiles # {}
    /\ del.phase = "rejected" => del.cause \in {"list", "session"}
    /\ (del.phase \notin {"idle", "listing"} /\ del.cause # "list") =>
            /\ (del.sid \notin DOMAIN sessions) <=> (del.phase = "resolved")
            /\ {r \in RowSet : r.sid = del.sid} = del.pendingMsgs \cup del.failedMsgs
            /\ del.fileIds \cap blobs =
                    IF del.phase = "messages" THEN del.fileIds
                    ELSE del.pendingFiles \cup del.failedFiles
    /\ \E r \in RowSet : r.sid = OtherId /\ r.fileId \in blobs
    /\ OtherId \in DOMAIN sessions

\* deleteSession resolved although a message deletion and a file deletion
\* failed, and another message was deleted
C15_Witness ==
    /\ del.phase = "resolved"
    /\ del.failedMsgs # {} /\ del.failedFiles # {}
    /\ del.failedMsgs # del.msgIds
    /\ ResumedId \notin DOMAIN sessions

ImageTurnPersisted == pc = "idle" /\ log.outcome = "persisted" /\ cur.img
TurnRows == {i \in 1..Len(rows) : rows[i].turn = turn}

\* C16 as stated: when a turn with an image has been streamed and persisted,
\* exactly two message rows were created since the submit, the user row with
\* a blob reference and then the assistant row without one.
C16_ExactlyTwoNewRows ==
    ImageTurnPersisted =>
        /\ log.rowsAtEnd = log.rowsAtSubmit + 2
        /\ rows[log.rowsAtSubmit + 1].role = "user"
        /\ rows[log.rowsAtSubmit + 1].fileId # NoFile
        /\ rows[log.rowsAtSubmit + 2].role = "assistant"
        /\ rows[log.rowsAtSubmit + 2].fileId = NoFile

\* C16 amended: the turn itself is persisted as exactly two rows of the
\* writer's session, the user row with the reference of a stored blob and,
\* after it, the assistant row without a reference; any other row created
\* since the submit is the row of the opening brief.
C16_ImageTurnRows ==
    ImageTurnPersisted =>
        /\ Cardinality(TurnRows) = 2
        /\ \E i, j \in TurnRows :
            /\ i < j
            /\ rows[i].call = "user" /\ rows[i].role = "user"
            /\ rows[i].fileId # NoFile /\ rows[i].fileId \in blobs
            /\ rows[i].content = cur.content
            /\ rows[j].call = "asst" /\ rows[j].role = "assistant"
            /\ rows[j].fileId = NoFile
            /\ rows[j].content = cur.assistantContent
            /\ rows[i].sid = writer.sessionId /\ rows[j].sid = writer.sessionId
        /\ \A i \in 1..Len(rows) :
            (i > log.rowsAtSubmit /\ i \notin TurnRows) => rows[i].call = "brief"
        /\ Cardinality({i \in 1..Len(rows) : rows[i].call = "brief"}) <= 1

\* the first turn carried an image and the row of the opening brief was
\* created between the user row and the assistant row
C16_Witness ==
    /\ ImageTurnPersisted /\ turn = 1
    /\ Len(rows) = 3
    /\ rows[1].call = "user" /\ rows[2].call = "brief" /\ rows[3].call = "asst"

\* C17: a run of the setup script started on what a successful run left
\* creates nothing, leaves collections, attributes, indexes, bucket and
\* permissions as they were, fails only if the store rejects a permission
\* update, and has otherwise succeeded having patched the permissions of the
\* two collections and the bucket.
C17_SetupIdempotent ==
    setup.afterSuccess =>
        /\ setup.startedOn = Provisioned
        /\ schema = setup.startedOn
        /\ setup.created = {}
        /\ setup.phase # "create"
        /\ setup.status = "failed" => setup.storeFault /\ setup.patched # Containers
        /\ setup.status = "succeeded" => setup.patched = Containers

\* the third run, after a failed first and a successful second, succeeded
C17_Witness ==
    /\ setup.run = 3 /\ setup.afterSuccess
    /\ setup.status = "succeeded"
    /\ setup.patched = Containers /\ setup.created = {}
    /\ schema = Provisioned

StreamFailures == {"encodeErr", "notOk", "netErr", "midFail"}

\* C18: when the stream of a turn failed, at whatever point, the placeholder
\* holds the diagnostic and nothing else, every other transcript entry is
\* untouched, and no save of the user text or of assistant text was started
\* for that turn: no call and no row carries the turn.
C18_StreamFailureShowsDiagnostic ==
    (pc = "idle" /\ log.outcome \in StreamFailures) =>
        /\ messages[Placeholder].content = Diagnostic
        /\ \A i \in 1..Len(messages) :
                messages[i].id = UserEntryId(turn) => messages[i].content = cur.content
        /\ calls["user"].turn # turn /\ calls["asst"].turn # turn
        /\ \A i \in 1..Len(rows) : rows[i].turn # turn

\* the stream of the second turn failed after two fragments had been rendered
C18_Witness ==
    /\ pc = "idle" /\ log.outcome = "midFail" /\ turn = 2
    /\ Len(log.streamed) = 2
    /\ cur.assistantContent = log.streamed
    /\ messages[Placeholder].content = Diagnostic

StreamCompleted ==
    \/ pc \in {"saveUser", "saveAsst"}
    \/ pc = "idle" /\ log.outcome \in {"persisted", "persistFailed"}

\* C19: while and after a stream that completes, the placeholder's content
\* and the text kept for the writer are the fragments delivered so far, in
\* arrival order; the content of the assistant save of the turn, and of the
\* row it creates, is the sequence of all fragments of the stream.
C19_AssistantTextIsAllChunks ==
    /\ (pc = "streaming" \/ StreamCompleted) =>
            /\ cur.assistantContent = log.streamed
            /\ messages[Placeholder].content = log.streamed
    /\ (turn > 0 /\ calls["asst"].turn = turn) =>
            /\ StreamCompleted
            /\ calls["asst"].content = log.streamed
            /\ calls["asst"].content = messages[Placeholder].content
    /\ \A i \in 1..Len(rows) :
            (rows[i].call = "asst" /\ rows[i].turn = turn) =>
                rows[i].content = log.streamed

\* the assistant save of a stream of two fragments is under way
C19_Witness ==
    /\ pc = "saveAsst"
    /\ log.streamed = <<"c1", "c2">>
    /\ calls["asst"].stage = "creating"
    /\ calls["asst"].content = <<"c1", "c2">>
    /\ messages[Placeholder].content = <<"c1", "c2">>

\* the transcript entries of the turns before the current one
PriorEntries ==
    SelectSeq(messages,
              LAMBDA m : m.id \notin {UserEntryId(turn), AssistantEntryId(turn)})
\* those but the opening entry of a new conversation
PriorButOpening == SelectSeq(PriorEntries, LAMBDA m : m.id # OpeningId \/ resumed)
\* the list of the current turn has been handed to sendStreamingChatMessage
ListSent == turn > 0 /\ pc # "encoding" /\ log.outcome # "encodeErr"
ListIs(prior) ==
    LET req == cur.ollamaMessages IN
    /\ Len(req) = Len(prior) + 2
    /\ req[1].role = "system" /\ req[1].images = 0
    /\ \A i \in 1..Len(prior) :
            req[i + 1] = [role |-> prior[i].role, content |-> prior[i].content,
                          images |-> 0]
    /\ req[Len(req)] = [role |-> "user", content |-> cur.content,
                        images |-> IF cur.img THEN 1 ELSE 0]

\* C20 as stated: the list is the system entry, every prior entry of the
\* transcript, and the new user message with one image if one was attached.
C20_EveryPriorEntrySent == ListSent => ListIs(PriorEntries)

\* C20 amended: the list is the system entry, every prior entry of the
\* transcript except the opening entry of a new conversation, and the new
\* user message with one image if one was attached.
C20_PriorEntriesButOpeningSent == ListSent => ListIs(PriorButOpening)

\* second turn of a new conversation with a brief, after a failed first turn:
\* the list holds the first user text and the diagnostic, not the brief, and
\* the new message carries one image
C20_Witness ==
    /\ ~resumed /\ hasBrief /\ turn = 2 /\ pc = "streaming"
    /\ Len(cur.ollamaMessages) = 4
    /\ cur.ollamaMessages[2].role = "user"
    /\ cur.ollamaMessages[3] = [role |-> "assistant", content |-> Diagnostic, images |-> 0]
    /\ cur.ollamaMessages[4].images = 1

\* C21: one turn at a time in a conversation view. While a turn is in flight
\* the loading flag is set; a submit is accepted only in Idle, so a call of
\* the model endpoint is started only by that submit (after the encoding of
\* its image, if any), and the transcript gains its two entries at the submit
\* and none until the turn has returned to Idle.
C21_OneTurnInFlight ==
    /\ [](isLoading <=> pc # "idle")
    /\ [](Len(messages) = 1 + 2 * turn)
    /\ [][ /\ turn' # turn =>
                /\ pc = "idle" /\ ~isLoading
                /\ turn' = turn + 1
                /\ Len(messages') = Len(messages) + 2
           /\ (pc' = "fetching" /\ pc # "fetching") =>
                (pc = "encoding" /\ turn' = turn) \/ (pc = "idle" /\ turn' = turn + 1)
           /\ pc # "idle" =>
                /\ turn' = turn
                /\ Len(messages') = Len(messages)
                /\ \A i \in 1..Len(messages) : messages'[i].id = messages[i].id ]_vars

\* a second turn was accepted once the first had returned to Idle, and is
\* streaming
C21_Witness ==
    /\ turn = 2 /\ pc = "streaming" /\ isLoading
    /\ Len(messages) = 5
    /\ Len(log.streamed) = 1

BriefRows == {i \in 1..Len(rows) : rows[i].call = "brief"}

\* C22: in a new conversation with an opening brief, saveInitialBrief is
\* called by the first submit and by no other step, and is never called
\* again; it creates at most one row, an assistant row holding the brief
\* without a blob reference, and the timestamp of that row is at most that of
\* every other row of the session, also when the row is created after them.
C22_BriefSavedOnceAndFirst ==
    /\ [](/\ (calls["brief"].stage # "idle") <=> (hasBrief /\ turn > 0)
          /\ Cardinality(BriefRows) <= 1
          /\ \A i \in BriefRows :
                /\ rows[i].role = "assistant" /\ rows[i].content = BriefText
                /\ rows[i].fileId = NoFile
                /\ \A j \in 1..Len(rows) :
                        /\ rows[j].sid = rows[i].sid
                        /\ rows[i].ts <= rows[j].ts)
    /\ [][ /\ (calls["brief"].stage = "idle" /\ calls'["brief"].stage # "idle")
                => (turn = 0 /\ turn' = 1)
           /\ Settled(calls["brief"]) => calls'["brief"] = calls["brief"]
           /\ calls["brief"].stage # "idle" => calls'["brief"].stage # "waitSession"
                                               \/ calls["brief"].stage = "waitSession" ]_vars

\* the row of the brief was created after the user row of the first turn, and
\* still carries the earliest timestamp; the assistant row carries a later one
C22_Witness ==
    /\ hasBrief /\ Len(rows) = 3
    /\ rows[1].call = "user" /\ rows[2].call = "brief" /\ rows[3].call = "asst"
    /\ rows[2].ts <= rows[1].ts
    /\ rows[2].ts < rows[3].ts

StoredOf(s) == {rows[i] : i \in RowsOf(s)}
Least(a, b) == IF a < b THEN a ELSE b
\* what a load that resolved returns for a session of n stored messages
ReturnsHistory(l) ==
    LET n == Cardinality(StoredOf(l.sid))
        got == {l.all[i] : i \in 1..Len(l.all)}
    IN  /\ Len(l.all) = Least(n, MAX_MESSAGES)
        /\ Cardinality(got) = Len(l.all)
        /\ got \subseteq StoredOf(l.sid)
        /\ \A i \in 1..(Len(l.all) - 1) : l.all[i].ts <= l.all[i + 1].ts
        /\ \A r \in StoredOf(l.sid) \ got : \A x \in got : x.ts <= r.ts
        /\ l.fetches = IF n >= MAX_MESSAGES THEN MAX_MESSAGES \div PageSize
                       ELSE n \div PageSize + 1
        /\ messages = Hydrate(l.all)

\* C23: loadSessionMessages ends after at most ten fetchMessages calls, each
\* answer adding a page of 50 while it goes on; unless a call was rejected it
\* resolves, with the messages of the session and of no other in ascending
\* timestamp order, all n of them when n is at most 500 and the 500 earliest
\* otherwise; it fetched pages of 50, going on from the last row of a page
\* while pages are full and fewer than 500 messages are held.
C23_LoadReturnsHistory ==
    /\ loads[1].fetches <= MAX_MESSAGES \div PageSize
    /\ loads[1].st = "rejected" => log.faults > 0
    /\ loads[1].st = "resolved" => ReturnsHistory(loads[1])
    /\ loads[1].st = "fetching" =>
            /\ loads[1].fetches < MAX_MESSAGES \div PageSize
            /\ Len(loads[1].all) = PageSize * loads[1].fetches
            /\ loads[1].fetches > 0 =>
                    loads[1].cursor = RowId(loads[1].all[Len(loads[1].all)])

\* a session of 501 messages, the brief-like row out of creation order: the
\* load resolved after ten pages with the 500 earliest messages
C23_Witness ==
    /\ loads[1].st = "resolved" /\ loads[1].fetches = 10
    /\ Cardinality(StoredOf(ResumedId)) = 501
    /\ Len(messages) = 500
    /\ RowId(loads[1].all[1]) = <<"old", 2>>
    /\ ~loadingHistory

\* C24: when no deletion of a row or file fails and nothing is appended,
\* deleteSession lists every message row of the session, in pages of 100 and
\* one page more than the full ones; it deletes the rows, then the files they
\* refer to, then the session row; once it resolved no row of the session, no
\* file of these rows and no session row is left, and the other session is
\* untouched.
C24_DeleteRemovesEverything ==
    /\ del.failedMsgs = {} /\ del.failedFiles = {}
    /\ del.phase = "listing" =>
            /\ Cardinality(del.msgIds) = ListLimit * del.pages
            /\ del.msgIds \subseteq StoredOf(del.sid)
    /\ (del.phase \in {"messages", "files", "session", "resolved"}
            \/ del.cause = "session") =>
            /\ StoredOf(del.sid) = del.pendingMsgs
            /\ del.pages = Cardinality(del.msgIds) \div ListLimit + 1
            /\ del.fileIds = {r.fileId : r \in {x \in del.msgIds : x.fileId # NoFile}}
            /\ del.fileIds \cap blobs =
                    IF del.phase = "messages" THEN del.fileIds ELSE del.pendingFiles
    /\ del.phase = "resolved" =>
            /\ StoredOf(del.sid) = {}
            /\ del.fileIds \cap blobs = {}
            /\ del.sid \notin DOMAIN sessions
    /\ OtherId \in DOMAIN sessions
    /\ \E r \in StoredOf(OtherId) : r.fileId \in blobs

\* a session of 201 messages, 101 of them with an image, was listed in three
\* pages and deleted with its rows and files
C24_Witness ==
    /\ del.phase = "resolved" /\ del.pages = 3
    /\ Cardinality(del.msgIds) = 201 /\ Cardinality(del.fileIds) = 101
    /\ Len(rows) = 1 /\ Cardinality(blobs) = 1
    /\ DOMAIN sessions = {OtherId}

\* C25 as stated: the user and assistant rows of a turn are rows of the
\* session that was the view's when the turn was submitted.
C25_TurnSavedToItsSession ==
    \A i \in 1..Len(rows) :
        rows[i].call \in {"user", "asst"} => rows[i].sid = log.submittedIn

LatestLoad == loads[Len(loads)]

\* C30 as stated: while the load of the session the view shows has not ended
\* the input is disabled, and once it has resolved the transcript of a view
\* in which nothing was submitted is what that load returned.
C30_TranscriptIsCurrentSession ==
    /\ LatestLoad.st = "fetching" => loadingHistory
    /\ (LatestLoad.st = "resolved" /\ turn = 0) =>
            messages = Hydrate(LatestLoad.all)


\* C26: once the createSession call of the writer has failed the writer is
\* never changed again and issues no further createSession call; exactly one
\* call was issued and none is pending, no session and no message row exists,
\* every save or saveInitialBrief that has run on the writer failed on the
\* session, and no turn ends persisted.
C26_FailedCreateIsFinal ==
    /\ [](writer.sessionCreating = "rejected" =>
            /\ log.createCalls = 1 /\ createPending = 0
            /\ writer.sessionId = NoSession
            /\ rows = <<>> /\ DOMAIN sessions = {}
            /\ \A k \in CallIds :
                calls[k].stage # "idle" =>
                    calls[k].stage = "failed" /\ calls[k].failedAt = "session"
            /\ log.outcome # "persisted")
    /\ [][writer.sessionCreating = "rejected" =>
            writer' = writer /\ log'.createCalls = log.createCalls]_vars

\* a second turn was submitted after the failure and its save was rejected too
C26_Witness ==
    /\ writer.sessionCreating = "rejected"
    /\ turn = 2 /\ pc = "idle" /\ log.outcome = "persistFailed"
    /\ calls["user"].turn = 2
    /\ calls["user"].stage = "failed" /\ calls["user"].failedAt = "session"


\* C27 as stated: the messageCount stored on a session row never decreases,
\* whatever the order in which the touchSession updates are applied.
C27_CountNeverDecreases ==
    [][\A s \in DOMAIN sessions :
            s \in DOMAIN sessions' => sessions'[s] >= sessions[s]]_vars


\* C28 as stated: once deleteSession(S) has completed no message row
\* references S, also when a turn was in flight during the deletion or the
\* view's writer still holds S.
C28_NoRowsOfDeletedSession ==
    del.phase = "resolved" =>
        \A i \in 1..Len(rows) : rows[i].sid # del.sid


\* C29 as stated: every blob in the bucket is referenced by a message row,
\* or by the appendMessage call that uploaded it and is still creating the row.
C29_NoOrphanBlob ==
    \A f \in blobs :
        \/ \E i \in 1..Len(rows) : rows[i].fileId = f
        \/ \E k \in CallIds : calls[k].stage = "creating" /\ calls[k].fileId = f

====
